---- MODULE Spec2Model ----
(***************************************************************************)
(* A model of niobot's command core: Argument, Command (construction and   *)
(* invoke), Context / ContextualResponse and the Module mount lifecycle.   *)
(* Python strings are sequences of one-character strings; the sentinels    *)
(* `...` and None are the strings "Ellipsis" and "None".                   *)
(***************************************************************************)
EXTENDS Integers, Sequences, FiniteSets, TLC

VARIABLES
    lastArgument,   \* <<>> or <<r>>: the inputs and the result of the latest Argument(...)
    lists,          \* heap of Python list objects holding Arguments (index = identity)
    cmds,           \* heap of Command objects (index = identity)
    built,          \* per list object: who created it and with which content
    lastInvoke,     \* <<>> or <<r>>: what the latest Command.invoke did
    lastEq,         \* <<>> or <<r>>: the latest `command == other` and its result
    nio_command,    \* function name -> Command identity attached as __nio_command__ (0: untagged)
    botCommands,    \* the host's command table
    mounted,        \* module instances the host has mounted
    nio_event,      \* function name -> event descriptor attached as __nio_event__
    botEvents,      \* the host's event table
    lastModuleOp,   \* <<r>> right after a __setup__ / __teardown__, else <<>>
    lastDecorate,   \* <<r>> right after a @command(...) decoration, else <<>>
    ctx,            \* <<>> or <<c>>: the Context under construction / in use
    responses,      \* heap of ContextualResponse objects
    nextEventId,    \* the transport's next fresh event id
    calls           \* log of transport calls (send_message / edit_message)

argVars == <<lastArgument>>
cmdVars == <<lists, cmds, built>>
invVars == <<lastInvoke, lastEq>>
modVars == <<nio_command, botCommands, mounted, nio_event, botEvents, lastModuleOp,
            lastDecorate>>
ctxVars == <<ctx, responses, nextEventId, calls>>
vars == <<lastArgument, lists, cmds, built, lastInvoke, lastEq, nio_command, botCommands, mounted,
          nio_event, botEvents, lastModuleOp, lastDecorate, ctx, responses, nextEventId,
          calls>>

----------------------------------------------------------------------------
(* Bounds *)

MaxArgs == 2        \* declared arguments in a caller-built argument list
MaxTokens == 4      \* tokens in ctx.args
MaxBody == 4        \* characters in a message body
MaxInv == 2         \* characters in an invoking string
MaxSends == 4       \* transport calls in one behaviour
MaxCmds == 2        \* Commands constructed from caller-supplied lists

----------------------------------------------------------------------------
(* Python values and sentinels *)

Ellipsis == "Ellipsis"
None == "None"

\* Python truthiness of the objects passed as Argument(parser=...): None is
\* falsy, the Ellipsis singleton and every function object are truthy.
Truthy(obj) == obj # None

\* Values handed to callbacks.
NoValue == [kind |-> "none", num |-> 0, str |-> <<>>, ref |-> ""]
IntVal(n) == [kind |-> "int", num |-> n, str |-> <<>>, ref |-> ""]
StrVal(s) == [kind |-> "str", num |-> 0, str |-> s, ref |-> ""]
CtxVal == [kind |-> "ctx", num |-> 0, str |-> <<>>, ref |-> ""]
ModuleVal(m) == [kind |-> "module", num |-> 0, str |-> <<>>, ref |-> m]

DigitChars == {"0", "1", "2", "3", "4", "5", "6", "7", "8", "9"}

DigitValue(ch) ==
    CASE ch = "0" -> 0 [] ch = "1" -> 1 [] ch = "2" -> 2 [] ch = "3" -> 3
      [] ch = "4" -> 4 [] ch = "5" -> 5 [] ch = "6" -> 6 [] ch = "7" -> 7
      [] ch = "8" -> 8 [] OTHER -> 9

RECURSIVE DecimalValue(_)
DecimalValue(s) ==
    IF s = <<>> THEN 0
    ELSE 10 * DecimalValue(SubSeq(s, 1, Len(s) - 1)) + DigitValue(s[Len(s)])

\* int(token) for tokens over letters and digits: a non-empty digit string
\* converts, anything else raises ValueError.
IntConverts(s) == s # <<>> /\ \A i \in 1..Len(s) : s[i] \in DigitChars

----------------------------------------------------------------------------
(* Argument *)

\* A constructor that takes every argument without `required=` as required.
ArgumentInitAlwaysRequired(name, arg_type, default, required, parser) ==
    [ name     |-> name,
      type     |-> arg_type,
      default  |-> IF required = Ellipsis THEN None ELSE default,
      required |-> IF required = Ellipsis THEN "True" ELSE required,
      parser   |-> IF Truthy(parser) THEN parser ELSE "internal_parser" ]

\* Argument.__init__.
ArgumentInit(name, arg_type, default, required, parser) ==
    [ name     |-> name,
      type     |-> arg_type,
      default  |-> IF required = Ellipsis THEN None ELSE default,
      required |-> IF required = Ellipsis
                   THEN (IF default = Ellipsis THEN "True" ELSE "False")
                   ELSE required,
      parser   |-> IF Truthy(parser) THEN parser ELSE "internal_parser" ]

ArgNameInputs == {"count", "name"}
ArgTypeInputs == {"int", "str"}
DefaultInputs == {Ellipsis, None, "0"}
RequiredInputs == {Ellipsis, "True", "False"}
ParserInputs == {Ellipsis, None, "echo", "reject"}

InitArgument == lastArgument = <<>>

NewArgument ==
    \E n \in ArgNameInputs, t \in ArgTypeInputs, d \in DefaultInputs,
       r \in RequiredInputs, p \in ParserInputs :
        /\ lastArgument' = << [ given |-> [default |-> d, required |-> r, parser |-> p],
                                arg |-> ArgumentInit(n, t, d, r, p) ] >>
        /\ UNCHANGED <<cmdVars, invVars, modVars, ctxVars>>

----------------------------------------------------------------------------
(* Command construction *)

\* Command.CTX_ARG: the implicit context argument, whose parser returns ctx.
CTX_ARG == ArgumentInit("ctx", "Context", Ellipsis, Ellipsis, "ctx_identity")

\* `kwargs.pop("arguments", None) or []`: the caller's list object when it is
\* a non-empty list, a fresh list otherwise (0 stands for None / not passed).
CommandArgumentsRef(ls, a) ==
    IF a # 0 /\ ls[a] # <<>> THEN a ELSE Len(ls) + 1

\* The heap after `self.arguments.insert(0, self.CTX_ARG)`.
CommandInitHeap(ls, a) ==
    LET ref == CommandArgumentsRef(ls, a)
        base == IF ref = Len(ls) + 1 THEN Append(ls, <<>>) ELSE ls
    IN [base EXCEPT ![ref] = <<CTX_ARG>> \o base[ref]]

\* `os.urandom(16).hex()`: 128 random bits, taken to differ from every id
\* drawn before; cs is the heap of Commands constructed so far.
NewRuntimeId(cs) == Len(cs) + 1

\* The list objects created by Command.__init__ itself start empty.
BuiltAfterCommandInit(b, ls, a) ==
    IF CommandArgumentsRef(ls, a) = Len(ls) + 1
    THEN Append(b, [by |-> "Command", content |-> <<>>])
    ELSE b

\* Command.__init__; rid is the value os.urandom gave.
CommandInit(ls, name, callback, disabled, module, a, rid) ==
    [ runtime_id |-> rid,
      name      |-> name,
      callback  |-> callback,
      disabled  |-> disabled,
      module    |-> module,
      arguments |-> CommandArgumentsRef(ls, a) ]

----------------------------------------------------------------------------
(* Command.invoke *)

EnumerateStart == 1

\* enumerate(self.arguments, 1): the index paired with the p-th list element.
EnumerateIndex(p) == EnumerateStart + (p - 1)

\* Calling argument.parser(ctx, argument, value).
CallParser(argument, value) ==
    CASE argument.parser = "ctx_identity" ->
            [ok |-> TRUE, value |-> CtxVal, exc |-> "", raw |-> <<>>]
      [] argument.parser = "internal_parser" ->
            IF argument.type = "int"
            THEN IF IntConverts(value)
                 THEN [ok |-> TRUE, value |-> IntVal(DecimalValue(value)), exc |-> "",
                       raw |-> <<>>]
                 ELSE [ok |-> FALSE, value |-> NoValue, exc |-> "CommandArgumentsError",
                       raw |-> value]
            ELSE IF argument.type = "str"
            THEN [ok |-> TRUE, value |-> StrVal(value), exc |-> "", raw |-> <<>>]
            ELSE [ok |-> FALSE, value |-> NoValue, exc |-> "TypeError", raw |-> <<>>]
      [] argument.parser = "echo" ->
            [ok |-> TRUE, value |-> StrVal(value), exc |-> "", raw |-> <<>>]
      [] argument.parser = "reject" ->
            [ok |-> FALSE, value |-> NoValue, exc |-> "ValueError", raw |-> <<>>]
      [] OTHER ->  \* the Ellipsis object is not callable
            [ok |-> FALSE, value |-> NoValue, exc |-> "TypeError", raw |-> <<>>]

\* A loop that notes the first failure and goes on calling the later parsers.
RECURSIVE ParseFromKeepGoing(_, _, _, _, _)
ParseFromKeepGoing(arguments, args, p, parsed, parserCalls) ==
    IF p > Len(arguments)
    THEN [failedAt |-> 0, argName |-> "", cause |-> "", raw |-> <<>>,
          parsed |-> parsed, parserCalls |-> parserCalls]
    ELSE LET argument == arguments[p]
             index == EnumerateStart + (p - 1)
         IN IF index >= Len(args)
            THEN [failedAt |-> p, argName |-> argument.name, cause |-> "IndexError",
                  raw |-> <<>>, parsed |-> parsed, parserCalls |-> parserCalls]
            ELSE LET res == CallParser(argument, args[index + 1])
                     made == Append(parserCalls, [pos |-> p, index |-> index,
                                                  value |-> args[index + 1]])
                     rest == ParseFromKeepGoing(arguments, args, p + 1,
                                                Append(parsed, res.value), made)
                 IN IF res.ok
                    THEN rest
                    ELSE [failedAt |-> p, argName |-> argument.name, cause |-> res.exc,
                          raw |-> res.raw, parsed |-> parsed,
                          parserCalls |-> rest.parserCalls]

\* The parsing loop from list position p on: the values parsed, the parser
\* calls made, and the failure that ended it (failedAt = 0: none).
RECURSIVE ParseFrom(_, _, _, _, _)
ParseFrom(arguments, args, p, parsed, parserCalls) ==
    IF p > Len(arguments)
    THEN [failedAt |-> 0, argName |-> "", cause |-> "", raw |-> <<>>,
          parsed |-> parsed, parserCalls |-> parserCalls]
    ELSE LET argument == arguments[p]
             index == EnumerateIndex(p)
         IN IF index >= Len(args)
            THEN [failedAt |-> p, argName |-> argument.name, cause |-> "IndexError",
                  raw |-> <<>>, parsed |-> parsed, parserCalls |-> parserCalls]
            ELSE LET res == CallParser(argument, args[index + 1])
                     made == Append(parserCalls, [pos |-> p, index |-> index,
                                                  value |-> args[index + 1]])
                 IN IF res.ok
                    THEN ParseFrom(arguments, args, p + 1, Append(parsed, res.value), made)
                    ELSE [failedAt |-> p, argName |-> argument.name, cause |-> res.exc,
                          raw |-> res.raw, parsed |-> parsed, parserCalls |-> made]

\* A loop that skips a failed argument instead of raising.
CommandInvokeSkipFailed(cmd, arguments, args, callbackRaises) ==
    LET pr == ParseFrom(arguments, args, 1, <<>>, <<>>)
    IN [ args |-> args, disabled |-> cmd.disabled, module |-> cmd.module,
         arguments |-> arguments,
         outcome |-> IF callbackRaises THEN "CallbackError" ELSE "returned",
         errorArg |-> "", errorPos |-> 0, cause |-> "",
         errorRaw |-> <<>>, parserCalls |-> pr.parserCalls, parsed |-> pr.parsed,
         callbackCalls |-> 1, callbackRaised |-> callbackRaises,
         callArgs |-> IF cmd.module # None THEN <<ModuleVal(cmd.module)>> \o pr.parsed
                      ELSE pr.parsed ]

\* An invoke whose try block also covers the call of the callback.
CommandInvokeWrapsCallback(cmd, arguments, args, callbackRaises) ==
    LET pr == ParseFrom(arguments, args, 1, <<>>, <<>>)
    IN [ args |-> args, disabled |-> cmd.disabled, module |-> cmd.module,
         arguments |-> arguments,
         outcome |-> IF pr.failedAt # 0 \/ callbackRaises THEN "CommandArgumentsError"
                     ELSE "returned",
         errorArg |-> pr.argName, errorPos |-> pr.failedAt, cause |-> pr.cause,
         errorRaw |-> pr.raw, parserCalls |-> pr.parserCalls, parsed |-> pr.parsed,
         callbackCalls |-> IF pr.failedAt # 0 THEN 0 ELSE 1,
         callbackRaised |-> pr.failedAt = 0 /\ callbackRaises,
         callArgs |-> IF pr.failedAt # 0 THEN <<>>
                      ELSE IF cmd.module # None THEN <<ModuleVal(cmd.module)>> \o pr.parsed
                      ELSE pr.parsed ]

\* Command.invoke(ctx) on a command whose argument list is `arguments`, with
\* ctx.args = args; callbackRaises is whether the user callback raises.
CommandInvoke(cmd, arguments, args, callbackRaises) ==
    LET pr == ParseFrom(arguments, args, 1, <<>>, <<>>)
    IN [ args |-> args, disabled |-> cmd.disabled, module |-> cmd.module,
         arguments |-> arguments,
         outcome |-> IF pr.failedAt # 0 THEN "CommandArgumentsError"
                     ELSE IF callbackRaises THEN "CallbackError" ELSE "returned",
         errorArg |-> pr.argName, errorPos |-> pr.failedAt, cause |-> pr.cause,
         errorRaw |-> pr.raw, parserCalls |-> pr.parserCalls, parsed |-> pr.parsed,
         callbackCalls |-> IF pr.failedAt # 0 THEN 0 ELSE 1,
         callbackRaised |-> pr.failedAt = 0 /\ callbackRaises,
         callArgs |-> IF pr.failedAt # 0 THEN <<>>
                      ELSE IF cmd.module # None THEN <<ModuleVal(cmd.module)>> \o pr.parsed
                      ELSE pr.parsed ]

----------------------------------------------------------------------------
(* Declaring and invoking one command *)

\* Declarations a caller puts in an argument list: (arg_type, parser=...).
DeclKinds == { <<"int", Ellipsis>>, <<"int", None>>, <<"str", Ellipsis>>,
               <<"str", None>>, <<"str", "echo">>, <<"str", "reject">> }
DeclNames == <<"count", "name", "extra", "more">>

DeclaredLists ==
    UNION { [1..n -> DeclKinds] : n \in 0..MaxArgs }

\* The list literal [Argument(...), ...] built from the kinds ks.
ArgumentList(ks) ==
    [i \in 1..Len(ks) |-> ArgumentInit(DeclNames[i], ks[i][1], Ellipsis, Ellipsis, ks[i][2])]

TokenSet == { <<"5">>, <<"a", "b", "c">> }
TokenSeqs == UNION { [1..n -> TokenSet] : n \in 0..MaxTokens }

ModuleInputs == {None, "m1"}

InitCommands == lists = <<>> /\ cmds = <<>> /\ built = <<>>
InitInvoke == lastInvoke = <<>> /\ lastEq = <<>>

NewList ==
    /\ lists = <<>> /\ cmds = <<>>
    /\ \E ks \in DeclaredLists :
        /\ lists' = Append(lists, ArgumentList(ks))
        /\ built' = Append(built, [by |-> "caller", content |-> ArgumentList(ks)])
    /\ UNCHANGED <<cmds, argVars, invVars, modVars, ctxVars>>

NewCommand ==
    /\ cmds = <<>>
    /\ \E disabled \in BOOLEAN, module \in ModuleInputs, a \in 0..Len(lists) :
        /\ cmds' = Append(cmds, CommandInit(lists, "greet", "greet", disabled, module, a,
                                            NewRuntimeId(cmds)))
        /\ lists' = CommandInitHeap(lists, a)
        /\ built' = BuiltAfterCommandInit(built, lists, a)
    /\ UNCHANGED <<argVars, invVars, modVars, ctxVars>>

\* cmd.invoke(ctx). invoke reads the command and the context and writes
\* neither, so one invocation per behaviour covers every invocation.
Invoke ==
    /\ lastInvoke = <<>>
    /\ \E c \in 1..Len(cmds), args \in TokenSeqs, callbackRaises \in BOOLEAN :
        lastInvoke' = << CommandInvoke(cmds[c], lists[cmds[c].arguments], args,
                                       callbackRaises) >>
    /\ UNCHANGED <<lastEq, cmdVars, argVars, modVars, ctxVars>>

----------------------------------------------------------------------------
(* Several commands, caller-supplied argument lists, equality *)

\* An __eq__ that compares what the commands are called.
CommandEqByName(cs, a, other) ==
    IF other.isCommand THEN cs[a].name = cs[other.ref].name
    ELSE cs[a].name = other.str

\* Command.__eq__(self, other): self is cs[a]; other is another Command of
\* the heap (other.ref) or a value that is not a Command (other.str).
CommandEq(cs, a, other) ==
    IF other.isCommand THEN cs[a].runtime_id = cs[other.ref].runtime_id
    ELSE FALSE

\* Command.__hash__: hash() of the runtime id string; equal ids hash equally.
CommandHash(cmd) == cmd.runtime_id

OtherCommand(b) == [isCommand |-> TRUE, ref |-> b, str |-> ""]
NotACommand(v) == [isCommand |-> FALSE, ref |-> 0, str |-> v]
NonCommandValues == {"greet", None}

\* The caller builds the list it will pass as arguments=.
BuildList ==
    /\ \A i \in 1..Len(built) : built[i].by # "caller"
    /\ Len(cmds) < MaxCmds
    /\ lastInvoke = <<>> /\ lastEq = <<>>
    /\ \E ks \in DeclaredLists :
        /\ lists' = Append(lists, ArgumentList(ks))
        /\ built' = Append(built, [by |-> "caller", content |-> ArgumentList(ks)])
    /\ UNCHANGED <<cmds, argVars, invVars, modVars, ctxVars>>

\* Command("greet", greet, module=..., arguments=...): every command of this
\* specification is given the same name and callback.
Construct ==
    /\ Len(cmds) < MaxCmds
    /\ lastInvoke = <<>> /\ lastEq = <<>>
    /\ \E module \in ModuleInputs,
          a \in {0} \cup { i \in 1..Len(lists) : built[i].by = "caller" } :
        /\ cmds' = Append(cmds, CommandInit(lists, "greet", "greet", FALSE, module, a,
                                            NewRuntimeId(cmds)))
        /\ lists' = CommandInitHeap(lists, a)
        /\ built' = BuiltAfterCommandInit(built, lists, a)
    /\ UNCHANGED <<argVars, invVars, modVars, ctxVars>>

\* `cmds[a] == other`.
Compare ==
    /\ lastInvoke = <<>> /\ lastEq = <<>>
    /\ \E a \in 1..Len(cmds),
          other \in { OtherCommand(b) : b \in 1..Len(cmds) }
                    \cup { NotACommand(v) : v \in NonCommandValues } :
        lastEq' = << [ left |-> a, other |-> other,
                       equal |-> CommandEq(cmds, a, other),
                       sameHash |-> other.isCommand
                                    /\ CommandHash(cmds[a]) = CommandHash(cmds[other.ref]) ] >>
    /\ UNCHANGED <<lastInvoke, cmdVars, argVars, modVars, ctxVars>>

\* Token sequences of every length, all tokens alike.
UniformTokenSeqs == { [i \in 1..n |-> <<"5">>] : n \in 0..MaxTokens }

\* cmd.invoke(ctx) on any of the constructed commands.
InvokeAny ==
    /\ lastInvoke = <<>> /\ lastEq = <<>>
    /\ \E c \in 1..Len(cmds), args \in UniformTokenSeqs, callbackRaises \in BOOLEAN :
        lastInvoke' = << CommandInvoke(cmds[c], lists[cmds[c].arguments], args,
                                       callbackRaises) >>
    /\ UNCHANGED <<lastEq, cmdVars, argVars, modVars, ctxVars>>

----------------------------------------------------------------------------
(* Decorators and the Module lifecycle *)

\* One Module subclass with two methods that command() may tag and one that
\* event() may tag; its instances share the class's function objects.
CommandFuncs == {"ping", "pong"}
EventFuncs == {"on_message"}
ModuleInstances == {"m1", "m2"}
CommandNameInputs == {None, "hello"}
EventNameInputs == {"message"}

Untagged == [function |-> "", name |-> "", module_instance |-> None]

InitModule ==
    /\ nio_command = [f \in CommandFuncs |-> 0]
    /\ nio_event = [f \in EventFuncs |-> Untagged]
    /\ botCommands = {}
    /\ botEvents = {}
    /\ mounted = {}
    /\ lastModuleOp = <<>>
    /\ lastDecorate = <<>>

\* A decorator that also registers the command, as NioBot.command() does.
DecoratorTableRegisters(table, cmd) == table \cup {cmd}

\* command.decorator: the host's command table after decoration; the
\* decorator makes no call on any host.
DecoratorTable(table, cmd) == table

\* command(name)(func): `name or func.__name__`.
CommandDecoratorName(name, func) == IF name # None THEN name ELSE func

\* @command(name) applied to the method f.
DecorateCommand ==
    \E f \in CommandFuncs, name \in CommandNameInputs :
        /\ nio_command[f] = 0
        /\ cmds' = Append(cmds, CommandInit(lists, CommandDecoratorName(name, f), f,
                                            FALSE, None, 0, NewRuntimeId(cmds)))
        /\ lists' = CommandInitHeap(lists, 0)
        /\ built' = BuiltAfterCommandInit(built, lists, 0)
        /\ nio_command' = [nio_command EXCEPT ![f] = Len(cmds) + 1]
        /\ botCommands' = DecoratorTable(botCommands, Len(cmds) + 1)
        /\ lastModuleOp' = <<>>
        /\ lastDecorate' = << [func |-> f, name |-> name, cmd |-> Len(cmds) + 1,
                               before |-> botCommands] >>
        /\ UNCHANGED <<mounted, nio_event, botEvents, argVars, invVars, ctxVars>>

\* @event(name) applied to the method f.
DecorateEvent ==
    \E f \in EventFuncs, name \in EventNameInputs :
        /\ nio_event[f] = Untagged
        /\ nio_event' = [nio_event EXCEPT
                            ![f] = [function |-> f, name |-> name, module_instance |-> None]]
        /\ lastModuleOp' = <<>>
        /\ lastDecorate' = <<>>
        /\ UNCHANGED <<nio_command, botCommands, mounted, botEvents,
                       argVars, cmdVars, invVars, ctxVars>>

\* Module.list_commands: the Commands attached to the members of the instance.
list_commands(inst) ==
    { nio_command[f] : f \in { g \in CommandFuncs : nio_command[g] # 0 } }

\* Module.list_events: the members of the instance carrying a descriptor.
list_events(inst) == { f \in EventFuncs : nio_event[f] # Untagged }

\* self._event_handler_callback(function), called without await: the value is
\* the coroutine object of the call, not the wrapper it would return.
EventHandlerValue(inst, function) ==
    [kind |-> "coroutine", function |-> function, instance |-> inst]

\* bot.add_command / bot.remove_command / bot.add_event on the host's tables.
add_command(table, cmd) == table \cup {cmd}
remove_command(table, cmd) == table \ {cmd}
add_event(table, name, handler) == table \cup {[name |-> name, handler |-> handler]}

RECURSIVE AddAll(_, _)
AddAll(table, cs) ==
    IF cs = {} THEN table
    ELSE LET c == CHOOSE x \in cs : TRUE IN AddAll(add_command(table, c), cs \ {c})

RECURSIVE RemoveAll(_, _)
RemoveAll(table, cs) ==
    IF cs = {} THEN table
    ELSE LET c == CHOOSE x \in cs : TRUE IN RemoveAll(remove_command(table, c), cs \ {c})

\* The event loop of __setup__: add_event(name, handler value) per descriptor.
RegisterEvents(table, inst) ==
    table \cup UNION { add_event({}, nio_event[f].name,
                                 EventHandlerValue(inst, nio_event[f].function)) :
                       f \in list_events(inst) }

\* The command loop of __setup__: `cmd.module = self` for each discovered command.
SetupModuleRefs(cs, inst) ==
    [c \in 1..Len(cmds) |-> IF c \in cs THEN [cmds[c] EXCEPT !.module = inst] ELSE cmds[c]]

\* A teardown that forgets to call remove_command.
TeardownTableKeep(table, inst) == table

\* The loop of __teardown__: remove_command for each discovered command.
TeardownTable(table, inst) == RemoveAll(table, list_commands(inst))

Setup ==
    \E inst \in ModuleInstances \ mounted :
        /\ cmds' = SetupModuleRefs(list_commands(inst), inst)
        /\ botCommands' = AddAll(botCommands, list_commands(inst))
        /\ nio_event' = [f \in EventFuncs |->
                            IF f \in list_events(inst)
                            THEN [nio_event[f] EXCEPT !.module_instance = inst]
                            ELSE nio_event[f]]
        /\ botEvents' = RegisterEvents(botEvents, inst)
        /\ mounted' = mounted \cup {inst}
        /\ lastModuleOp' = << [op |-> "setup", inst |-> inst,
                               discovered |-> list_commands(inst),
                               before |-> botCommands, others |-> mounted] >>
        /\ lastDecorate' = <<>>
        /\ UNCHANGED <<lists, built, nio_command, argVars, invVars, ctxVars>>

Teardown ==
    \E inst \in mounted :
        /\ botCommands' = TeardownTable(botCommands, inst)
        /\ mounted' = mounted \ {inst}
        /\ lastModuleOp' = << [op |-> "teardown", inst |-> inst,
                               discovered |-> list_commands(inst),
                               before |-> botCommands, others |-> mounted \ {inst}] >>
        /\ lastDecorate' = <<>>
        /\ UNCHANGED <<cmdVars, nio_command, nio_event, botEvents, argVars, invVars, ctxVars>>

----------------------------------------------------------------------------
(* Context construction *)

\* An optional Python string: None or a str.
NoString == [none |-> TRUE, s |-> <<>>]
Str(s) == [none |-> FALSE, s |-> s]

\* Truthiness of an optional string: None and "" are falsy.
StringTruthy(o) == ~o.none /\ o.s # <<>>

\* s[n:] for n >= 0: the start is clamped to len(s), nothing is raised.
PySliceFrom(s, n) ==
    LET start == IF n > Len(s) THEN Len(s) ELSE n
    IN [i \in 1..(Len(s) - start) |-> s[start + i]]

\* ArgumentView(text).parse_arguments(): the whitespace-separated tokens of
\* text, in order.
RECURSIVE TokenizeFrom(_, _, _, _)
TokenizeFrom(text, i, current, done) ==
    IF i > Len(text)
    THEN IF current = <<>> THEN done ELSE Append(done, current)
    ELSE IF text[i] = " "
         THEN TokenizeFrom(text, i + 1, <<>>,
                           IF current = <<>> THEN done ELSE Append(done, current))
         ELSE TokenizeFrom(text, i + 1, Append(current, text[i]), done)

Tokenize(text) == TokenizeFrom(text, 1, <<>>, <<>>)

\* A construction that strips one character too few.
ContextToParseShort(body, invoking_string) ==
    IF StringTruthy(invoking_string) /\ Len(invoking_string.s) > 0
    THEN PySliceFrom(body, Len(invoking_string.s) - 1)
    ELSE body

\* Context.__init__: the text handed to ArgumentView.
ContextToParse(body, invoking_string) ==
    IF StringTruthy(invoking_string)
    THEN PySliceFrom(body, Len(invoking_string.s))
    ELSE body

ContextInit(event_id, body, invoking_string) ==
    [ event_id          |-> event_id,
      body              |-> body,
      invoking_string   |-> invoking_string,
      to_parse          |-> ContextToParse(body, invoking_string),
      args              |-> Tokenize(ContextToParse(body, invoking_string)),
      original_response |-> 0 ]

BodyChars == {"g", " ", "5"}
ExampleBody == <<"!", "g", "r", "e", "e", "t", " ", "B", "o", "b">>
ExampleInvoking == <<"!", "g", "r", "e", "e", "t", " ">>

Strings(maxLen) == UNION { [1..n -> BodyChars] : n \in 0..maxLen }
BodyInputs == Strings(MaxBody) \cup {ExampleBody}
InvokingInputs ==
    { Str(s) : s \in Strings(MaxInv) \cup {ExampleInvoking} } \cup {NoString}

InitContext ==
    /\ ctx = <<>>
    /\ responses = <<>>
    /\ nextEventId = 2
    /\ calls = <<>>

\* Context(client, room, event, command, invoking_string=inv): one Context
\* is built per dispatched message.
NewContext ==
    \E body \in BodyInputs, inv \in InvokingInputs :
        /\ ctx = <<>>
        /\ ctx' = << ContextInit(1, body, inv) >>
        /\ UNCHANGED <<responses, nextEventId, calls, argVars, cmdVars, invVars, modVars>>

----------------------------------------------------------------------------
(* Context.respond and ContextualResponse *)

\* Context.respond: the Context after a successful send; the method returns
\* the new ContextualResponse and assigns nothing.
ContextAfterRespond(c, response) == c

\* ContextualResponse.reply: the reply_to passed to send_message.
ReplyTarget(c, r) == r.event_id

\* ContextualResponse.edit: the event id passed to edit_message.
EditTarget(c, r) == c.event_id

InitResponse ==
    /\ ctx \in { << ContextInit(1, ExampleBody, Str(ExampleInvoking)) >>,
                 << ContextInit(1, <<"g">>, NoString) >> }
    /\ responses = <<>>
    /\ nextEventId = 2
    /\ calls = <<>>

\* await ctx.respond(content): the transport either sends (a fresh event id
\* comes back) or raises.
Respond ==
    /\ Len(calls) < MaxSends
    /\ \E sent \in BOOLEAN :
        /\ calls' = Append(calls, [via |-> "respond", fn |-> "send_message",
                                   target |-> ctx[1].event_id, response |-> 0,
                                   ok |-> sent])
        /\ IF sent
           THEN /\ responses' = Append(responses, [event_id |-> nextEventId,
                                                   awaited |-> TRUE])
                /\ nextEventId' = nextEventId + 1
                /\ ctx' = << ContextAfterRespond(ctx[1], Len(responses) + 1) >>
           ELSE UNCHANGED <<responses, nextEventId, ctx>>
    /\ UNCHANGED <<argVars, cmdVars, invVars, modVars>>

\* await response.reply(content) on a response whose send result carries an
\* event id; the new ContextualResponse wraps the un-awaited send_message call.
Reply ==
    /\ Len(calls) < MaxSends
    /\ \E r \in 1..Len(responses) :
        /\ responses[r].awaited
        /\ calls' = Append(calls, [via |-> "reply", fn |-> "send_message",
                                   target |-> ReplyTarget(ctx[1], responses[r]),
                                   response |-> r, ok |-> TRUE])
        /\ responses' = Append(responses, [event_id |-> 0, awaited |-> FALSE])
    /\ UNCHANGED <<ctx, nextEventId, argVars, cmdVars, invVars, modVars>>

\* await response.edit(content).
Edit ==
    /\ Len(calls) < MaxSends
    /\ \E r \in 1..Len(responses) :
        calls' = Append(calls, [via |-> "edit", fn |-> "edit_message",
                                target |-> EditTarget(ctx[1], responses[r]),
                                response |-> r, ok |-> TRUE])
    /\ UNCHANGED <<ctx, responses, nextEventId, argVars, cmdVars, invVars, modVars>>

----------------------------------------------------------------------------
(* Specifications *)

\* Argument construction.
InitA == InitArgument /\ InitCommands /\ InitInvoke /\ InitModule /\ InitContext
NextA == NewArgument
SpecArgument == InitA /\ [][NextA]_vars

\* One command declared from a caller-built argument list, then invoked.
Init == InitArgument /\ InitCommands /\ InitInvoke /\ InitModule /\ InitContext
Next == NewList \/ NewCommand \/ Invoke
Spec == Init /\ [][Next]_vars

\* Commands of one name and callback constructed from caller-supplied argument
\* lists, then compared or invoked.
InitK == InitArgument /\ InitCommands /\ InitInvoke /\ InitModule /\ InitContext
NextK == BuildList \/ Construct \/ Compare \/ InvokeAny
SpecCommand == InitK /\ [][NextK]_vars

\* Decoration, mounting and unmounting of module instances.
InitM == InitArgument /\ InitCommands /\ InitInvoke /\ InitModule /\ InitContext
NextM == DecorateCommand \/ DecorateEvent \/ Setup \/ Teardown
SpecModule == InitM /\ [][NextM]_vars

\* Context construction from a message body and an invoking string.
InitC == InitArgument /\ InitCommands /\ InitInvoke /\ InitModule /\ InitContext
NextC == NewContext
SpecContext == InitC /\ [][NextC]_vars

\* Responding to one Context and chaining on the responses.
InitR == InitArgument /\ InitCommands /\ InitInvoke /\ InitModule /\ InitResponse
NextR == Respond \/ Reply \/ Edit
SpecResponse == InitR /\ [][NextR]_vars

----------------------------------------------------------------------------
(* Properties of Command.invoke *)

\* Parsers that return a value for every token they are given.
AcceptsEveryToken(argument) ==
    \/ argument.parser \in {"ctx_identity", "echo"}
    \/ argument.parser = "internal_parser" /\ argument.type = "str"

\* The first declared argument without a token when declared argument k reads
\* ctx.args[k] and M tokens were supplied.
FirstMissing(M) == IF M < 1 THEN 1 ELSE M

\* C1: a command with N declared arguments invoked with M < N tokens, every
\* parser accepting whatever token it gets, fails with CommandArgumentsError
\* (never a raw IndexError) raised for the first declared argument that has
\* no token.
C1_ShortfallNamesFirstMissing ==
    \A i \in 1..Len(lastInvoke) :
        LET r == lastInvoke[i]
            N == Len(r.arguments) - 1
            M == Len(r.args)
        IN (M < N /\ \A p \in 1..Len(r.arguments) : AcceptsEveryToken(r.arguments[p]))
           => /\ r.outcome = "CommandArgumentsError"
              /\ r.callbackCalls = 0
              /\ r.errorArg = r.arguments[FirstMissing(M) + 1].name

\* type(raw_token) for the argument types of the model.
Converts(arg_type, token) == arg_type = "str" \/ IntConverts(token)
Converted(arg_type, token) ==
    IF arg_type = "str" THEN StrVal(token) ELSE IntVal(DecimalValue(token))

\* C2: an argument declared without a parser, reached by the parsing loop
\* with a token, is converted by argument.type: the callback receives
\* type(token) for it, and a token that does not convert fails the invocation
\* with CommandArgumentsError naming the argument and the raw value.
C2_DefaultConverter ==
    \A i \in 1..Len(lastInvoke) :
        LET r == lastInvoke[i]
        IN \A p \in 2..Len(r.arguments) :
            ( /\ r.arguments[p].parser = Ellipsis
              /\ p < Len(r.args)
              /\ (r.errorPos = 0 \/ r.errorPos >= p) )
            => LET token == r.args[p + 1]
                   t == r.arguments[p].type
               IN IF Converts(t, token)
                  THEN /\ r.errorPos # p
                       /\ r.errorPos = 0 => r.parsed[p] = Converted(t, token)
                  ELSE /\ r.outcome = "CommandArgumentsError"
                       /\ r.errorPos = p
                       /\ r.errorArg = r.arguments[p].name
                       /\ r.errorRaw = token

\* C6: invoking a disabled command never runs the callback.
C6_DisabledNeverRuns ==
    \A i \in 1..Len(lastInvoke) :
        lastInvoke[i].disabled => lastInvoke[i].callbackCalls = 0

\* Every argument of the invocation had a token at its index and its parser
\* returned a value for it.
EveryParserReturned(r) ==
    \A p \in 1..Len(r.arguments) :
        p < Len(r.args) /\ CallParser(r.arguments[p], r.args[p + 1]).ok

\* C7: the callback runs exactly once when every parser returned a value and
\* not at all when a token lookup or a parser failed; a failed invocation is
\* a CommandArgumentsError that passed nothing to the callback.
C7_ParseFailureAborts ==
    \A i \in 1..Len(lastInvoke) :
        LET r == lastInvoke[i]
        IN IF EveryParserReturned(r)
           THEN r.callbackCalls = 1 /\ r.outcome # "CommandArgumentsError"
           ELSE r.callbackCalls = 0 /\ r.callArgs = <<>>
                /\ r.outcome = "CommandArgumentsError"

\* C7 witness: the second declared argument failed after two parsers had
\* returned, and the callback did not run.
C7_Witness ==
    /\ lastInvoke # <<>>
    /\ lastInvoke[1].errorPos = 3
    /\ Len(lastInvoke[1].parsed) = 2
    /\ lastInvoke[1].callbackCalls = 0

\* C8: a command with no declared arguments succeeds for every token
\* sequence, the callback receiving the Context and nothing else from the
\* parsers; and the first entry of the argument list is CTX_ARG.
C8_ContextSlotNeedsNoToken ==
    \A i \in 1..Len(lastInvoke) :
        LET r == lastInvoke[i]
        IN /\ r.arguments[1] = CTX_ARG
           /\ Len(r.arguments) = 1
              => /\ r.callbackCalls = 1
                 /\ r.parsed = <<CtxVal>>

----------------------------------------------------------------------------
(* Properties of Argument construction *)

\* C9: without `required=`, required is True exactly when no default was
\* supplied (a supplied default makes it False); a `required=` passed
\* explicitly is kept as given.
C9_RequiredDefault ==
    \A i \in 1..Len(lastArgument) :
        LET g == lastArgument[i].given
            a == lastArgument[i].arg
        IN IF g.required = Ellipsis
           THEN /\ a.required \in {"True", "False"}
                /\ a.required = "True" <=> g.default = Ellipsis
           ELSE a.required = g.required

\* C9 witness: a default of 0 was supplied without `required=`, and the
\* Argument is not required.
C9_Witness ==
    /\ lastArgument # <<>>
    /\ lastArgument[1].given.required = Ellipsis
    /\ lastArgument[1].given.default = "0"
    /\ lastArgument[1].arg.required = "False"

----------------------------------------------------------------------------
(* Properties of Context construction *)

\* C10: for a body and an invoking string, the text handed to the tokenizer
\* is the body without its first len(invoking_string) characters, and is
\* empty (no tokens, nothing raised) when the invoking string is longer than
\* the body; "!greet Bob" with "!greet " gives the tokens ["Bob"].
C10_TokenRemainder ==
    \A i \in 1..Len(ctx) :
        LET c == ctx[i]
            n == Len(c.invoking_string.s)
        IN ~c.invoking_string.none
           => /\ IF n > Len(c.body)
                 THEN c.to_parse = <<>> /\ c.args = <<>>
                 ELSE SubSeq(c.body, 1, n) \o c.to_parse = c.body
              /\ (c.body = ExampleBody /\ c.invoking_string.s = ExampleInvoking)
                 => c.args = << <<"B", "o", "b">> >>

\* C10 witness: a non-empty body shorter than the invoking string gave an
\* empty token sequence.
C10_Witness ==
    /\ ctx # <<>>
    /\ ~ctx[1].invoking_string.none
    /\ ctx[1].body # <<>>
    /\ Len(ctx[1].invoking_string.s) > Len(ctx[1].body)
    /\ ctx[1].args = <<>>

----------------------------------------------------------------------------
(* Properties of the Module lifecycle *)

\* The Commands attached to methods of the module class.
TaggedCommands == { nio_command[f] : f \in CommandFuncs } \ {0}

\* C3: right after __setup__ on an instance every command tagged on the
\* module is in the host's command table with its module set to that
\* instance; right after __teardown__ on it none of them is in the table.
C3_MountRoundTrip ==
    \A i \in 1..Len(lastModuleOp) :
        LET op == lastModuleOp[i]
        IN \A c \in TaggedCommands :
            IF op.op = "setup"
            THEN c \in botCommands /\ cmds[c].module = op.inst
            ELSE c \notin botCommands

\* C3 witness: an instance with two tagged commands was mounted and has just
\* been unmounted.
C3_Witness ==
    /\ lastModuleOp # <<>>
    /\ lastModuleOp[1].op = "teardown"
    /\ Cardinality(TaggedCommands) = 2
    /\ \A c \in TaggedCommands : cmds[c].module = lastModuleOp[1].inst

----------------------------------------------------------------------------
(* Properties of the response helpers *)

\* The ContextualResponses that respond() returned, oldest first.
RespondResults == { r \in 1..Len(responses) : responses[r].awaited }

\* C4: original_response is unset until a respond() succeeds, and after a
\* successful respond() it is the response of the most recent such call.
C4_OriginalResponseRecorded ==
    \A i \in 1..Len(ctx) :
        IF RespondResults = {}
        THEN ctx[i].original_response = 0
        ELSE ctx[i].original_response =
                CHOOSE r \in RespondResults : \A q \in RespondResults : q <= r

\* C5: every transport call made by reply() or edit() targets the event id
\* of the response it was called on, not that of the invoking message.
C5_TargetsWrappedResponse ==
    \A k \in 1..Len(calls) :
        calls[k].via \in {"reply", "edit"}
        => /\ calls[k].target = responses[calls[k].response].event_id
           /\ calls[k].target # ctx[1].event_id

----------------------------------------------------------------------------
(* Properties of Command identity and of its argument list *)

\* C11: equality is by runtime id: a Command equals another Command exactly
\* when it is the same object, whatever their names and callbacks (distinct
\* objects have distinct runtime ids), and never equals a non-Command.
C11_IdentityEquality ==
    /\ \A a, b \in 1..Len(cmds) : a # b => cmds[a].runtime_id # cmds[b].runtime_id
    /\ \A i \in 1..Len(lastEq) :
        LET r == lastEq[i]
        IN IF r.other.isCommand
           THEN /\ r.equal <=> r.left = r.other.ref
                /\ r.equal => r.sameHash
           ELSE ~r.equal

\* C11 witness: two different Commands with the same name and callback were
\* compared and found unequal.
C11_Witness ==
    /\ lastEq # <<>>
    /\ lastEq[1].other.isCommand
    /\ lastEq[1].left # lastEq[1].other.ref
    /\ cmds[lastEq[1].left].name = cmds[lastEq[1].other.ref].name
    /\ cmds[lastEq[1].left].callback = cmds[lastEq[1].other.ref].callback
    /\ ~lastEq[1].equal

\* How often value v occurs in the sequence q.
Occurrences(q, v) == Cardinality({ i \in 1..Len(q) : q[i] = v })

\* C19: every Command's argument list holds the context argument exactly
\* once, first, also when several Commands were built from one caller list;
\* and a list the caller built still has the content the caller gave it.
C19_ContextOnceCallerListKept ==
    /\ \A c \in 1..Len(cmds) :
        LET l == lists[cmds[c].arguments]
        IN l # <<>> /\ l[1] = CTX_ARG /\ Occurrences(l, CTX_ARG) = 1
    /\ \A i \in 1..Len(built) :
        built[i].by = "caller" => lists[i] = built[i].content

\* The values the parsers of the declared (non-context) entries of the
\* argument list return for the tokens at their indexes.
RECURSIVE DeclaredValues(_, _, _)
DeclaredValues(arguments, args, p) ==
    IF p > Len(arguments) THEN <<>>
    ELSE (IF arguments[p] = CTX_ARG THEN <<>>
          ELSE << CallParser(arguments[p], args[p + 1]).value >>)
         \o DeclaredValues(arguments, args, p + 1)

\* C16: after successful parsing the callback is called once with the module
\* instance first when the command has one, then the Context (once), then
\* the parsed values of the declared arguments in declaration order; without
\* a module, with the Context and the parsed values only.
C16_CallingConvention ==
    \A i \in 1..Len(lastInvoke) :
        LET r == lastInvoke[i]
        IN r.errorPos = 0
           => /\ r.callbackCalls = 1
              /\ r.callArgs =
                    (IF r.module # None THEN << ModuleVal(r.module) >> ELSE <<>>)
                    \o << CtxVal >> \o DeclaredValues(r.arguments, r.args, 1)
              /\ Occurrences(r.callArgs, CtxVal) = 1

----------------------------------------------------------------------------
(* Order of parsing, propagation of failures, token positions *)

\* C12: within one invoke the parsers are called one after the other in the
\* order of the argument list, each list entry at most once, and none after
\* the entry whose lookup or parser failed.
C12_ParsersInDeclarationOrder ==
    \A i \in 1..Len(lastInvoke) :
        LET r == lastInvoke[i]
        IN /\ \A j \in 1..Len(r.parserCalls) : r.parserCalls[j].pos = j
           /\ Len(r.parserCalls) <= Len(r.arguments)
           /\ IF r.errorPos = 0
              THEN Len(r.parserCalls) = Len(r.arguments)
              ELSE Len(r.parserCalls) <= r.errorPos

\* C12 witness: the first declared argument's parser failed although the
\* second one had a token, and the second parser was not called.
C12_Witness ==
    /\ lastInvoke # <<>>
    /\ Len(lastInvoke[1].arguments) = 3
    /\ Len(lastInvoke[1].args) >= 4
    /\ lastInvoke[1].errorPos = 2
    /\ Len(lastInvoke[1].parserCalls) = 2

\* C13: a failure of the callback leaves invoke as it was raised, not as a
\* CommandArgumentsError; every failure while parsing leaves it as a
\* CommandArgumentsError whose cause is the exception that was raised.
C13_FailurePropagation ==
    \A i \in 1..Len(lastInvoke) :
        LET r == lastInvoke[i]
        IN /\ r.callbackRaised
              => r.outcome = "CallbackError" /\ r.cause = "" /\ r.errorArg = ""
           /\ r.errorPos # 0
              => /\ r.outcome = "CommandArgumentsError"
                 /\ r.errorArg = r.arguments[r.errorPos].name
                 /\ r.cause = IF r.errorPos >= Len(r.args) THEN "IndexError"
                              ELSE CallParser(r.arguments[r.errorPos],
                                              r.args[r.errorPos + 1]).exc
                 /\ r.cause # ""

\* C13 witness: every parser of a command with a declared argument returned
\* and the callback raised.
C13_Witness ==
    /\ lastInvoke # <<>>
    /\ Len(lastInvoke[1].arguments) >= 2
    /\ lastInvoke[1].callbackRaised
    /\ lastInvoke[1].outcome = "CallbackError"

\* C15: the k-th declared argument (list position k + 1) is parsed from
\* ctx.args[k]; no parser is given ctx.args[0]; the context slot needs no
\* token.
C15_TokenPositions ==
    \A i \in 1..Len(lastInvoke) :
        LET r == lastInvoke[i]
        IN /\ r.errorPos # 1
           /\ \A j \in 1..Len(r.parserCalls) :
                LET e == r.parserCalls[j]
                IN /\ e.index # 0
                   /\ e.pos >= 2 => /\ e.index = e.pos - 1
                                    /\ e.value = r.args[e.pos]

----------------------------------------------------------------------------
(* The default an Argument keeps *)

\* C18: without `required=`, the default becomes None only when no default
\* was supplied; a supplied default is kept as the Argument's default.
C18_SuppliedDefaultKept ==
    \A i \in 1..Len(lastArgument) :
        LET g == lastArgument[i].given
            a == lastArgument[i].arg
        IN g.required = Ellipsis
           => a.default = (IF g.default = Ellipsis THEN None ELSE g.default)

----------------------------------------------------------------------------
(* Decoration, events and interleaved mounting *)

C17_EventHandlerCallable ==
    /\ \A e \in botEvents :
        /\ e.handler.kind = "wrapper"
        /\ e.handler.instance \in ModuleInstances
        /\ \E f \in EventFuncs :
            nio_event[f].name = e.name /\ nio_event[f].function = e.handler.function
    /\ \A i \in 1..Len(lastModuleOp) :
        lastModuleOp[i].op = "setup"
        => \A f \in EventFuncs :
            nio_event[f] # Untagged => nio_event[f].module_instance = lastModuleOp[i].inst

\* C20: with several instances of one Module class mounted and unmounted in
\* any order, every command in the host's table refers to a mounted
\* instance, a teardown leaves the commands in the table while another
\* instance is still mounted, and a command a teardown removed no longer
\* refers to the instance torn down.
C20_InterleavedMounts ==
    /\ \A c \in botCommands : cmds[c].module \in mounted
    /\ \A i \in 1..Len(lastModuleOp) :
        LET op == lastModuleOp[i]
        IN op.op = "teardown"
           => /\ op.others # {} => \A c \in op.before : c \in botCommands
              /\ \A c \in op.before \ botCommands : cmds[c].module # op.inst

====
